---- MODULE Spec2Model ----
(***************************************************************************)
(* Model of the yoneda stack memory allocator (src/src/stack.cpp,          *)
(* src/include/stack.hpp), of the arena allocator and its checkpoints      *)
(* (src/src/yoneda_arena.c, src/include/yoneda_memory.h), of the memory    *)
(* manager over the stack (src/src/memory_manager.cpp) and of the          *)
(* alignment arithmetic they rest on (src/src/yoneda_memory.c), in the     *)
(* default build (YO_DEBUG undefined: no asserts, no abort at memory       *)
(* error, plain pointer arithmetic).  Spec is the stack, ArenaSpec the     *)
(* arena, AllocSpec either of them, ManagerSpec the memory manager,        *)
(* ForgeSpec the memory manager with callers that forge block headers,     *)
(* YoArenaSpec the older arena (src/src/arena.c), AlignSpec the alignment  *)
(* functions.                                                              *)
(*                                                                         *)
(* Addresses and sizes are unsigned machine words of UsizeBits bits; the   *)
(* buffer is modelled byte by byte and block headers live inside it, in    *)
(* little-endian words of WordSize bytes, exactly where the code writes    *)
(* them.  Bytes outside the managed buffer are not part of the state: a    *)
(* load from there yields an arbitrary header, a store there is lost, and  *)
(* a run is followed up to its first out-of-bounds access and no further.  *)
(***************************************************************************)
EXTENDS Integers, Naturals, Sequences, FiniteSets, TLC

\* ---------------------------------------------------------------------------
\* Bounds of the model.
\* ---------------------------------------------------------------------------

\* Width, in bits, of usize/uptr in the model (64 in the build).
UsizeBits == 12

\* Capacity of the non-empty buffers the stack is constructed over.
MaxCapacity == 96

\* The strictest alignment callers request is 2^MaxAlignLog, above alignof(StackHeader).
MaxAlignLog == 4

\* Length of the call sequences explored, of the stack and when both
\* allocators are.
MaxCalls == 4

\* Length of the sequences of arena calls explored.
MaxArenaCalls == 3

\* Address of the aligned buffer.
BufBase == 64

\* A small block size, besides 1 and the sizes at the capacity boundary.
SmallSize == 8

\* The number of arena checkpoints a caller holds at a time.
MaxCheckpoints == 2

\* ---------------------------------------------------------------------------
\* Program constants.
\* ---------------------------------------------------------------------------

NULL == 0

\* YO_STATUS_FAILED = false
STATUS_FAILED == 0

\* YO_STATUS_OK = true
STATUS_OK == 1

\* sizeof(usize)
WordSize == 8

\* sizeof(StackHeader): three usize fields.
HeaderSize == 3 * WordSize

\* alignof(StackHeader): the alignment of usize.
HeaderAlign == WordSize

UsizeMod == 2 ^ UsizeBits

\* ---------------------------------------------------------------------------
\* Unsigned arithmetic.
\* ---------------------------------------------------------------------------

UAdd(a, b) == (a + b) % UsizeMod

USub(a, b) == (a - b) % UsizeMod

no_wrap_sub(a, b) == LET c == USub(a, b) IN IF c <= a THEN c ELSE 0

psh_min_value(a, b) == IF a < b THEN a ELSE b

\* ---------------------------------------------------------------------------
\* State.
\* ---------------------------------------------------------------------------

VARIABLES
    buf,              \* Stack::buf, the address of the managed buffer
    capacity,         \* Stack::capacity
    offset,           \* Stack::offset
    previous_offset,  \* Stack::previous_offset
    mem,              \* the bytes of the buffer, indexed by offset from buf
    call,             \* the call that has just returned, with its result, until the caller takes it
    blocks,           \* the blocks the caller holds: allocated and not freed, oldest first
    trusted,          \* every block freed or resized so far was one the caller held
    alive,            \* no out-of-bounds access has happened
    ncalls,           \* the number of calls made so far
    allocator,        \* the allocator constructed over the buffer: "stack" or "arena"
    checkpoints,      \* the ArenaCheckpoint values the caller holds, oldest first
    budget,           \* the number of calls the caller makes
    allocation_count  \* MemoryManager::allocation_count

vars == <<buf, capacity, offset, previous_offset, mem, call, blocks, trusted, alive, ncalls,
          allocator, checkpoints, budget, allocation_count>>

\* ---------------------------------------------------------------------------
\* Memory: little-endian words inside the byte buffer.
\* ---------------------------------------------------------------------------

\* Byte i of the word holding v (v < 2^24 in the model).
ByteOf(v, i) ==
    IF i = 0 THEN v % 256
    ELSE IF i = 1 THEN (v \div 256) % 256
    ELSE IF i = 2 THEN (v \div 65536) % 256
    ELSE 0

\* Offset from buf of the address addr.
IndexOf(addr) == USub(addr, buf)

\* The n bytes at addr all lie inside the buffer.
InBuffer(addr, n) == IndexOf(addr) + n <= capacity

\* The usize stored at index i of the buffer.
LoadWord(m, i) == (m[i] + 256 * m[i + 1] + 65536 * m[i + 2]) % UsizeMod

\* *reinterpret_cast<StackHeader const*>(addr); g is what an out-of-bounds load yields.
LoadHeader(m, addr, g) ==
    IF InBuffer(addr, HeaderSize)
    THEN LET i == IndexOf(addr)
         IN  [padding         |-> LoadWord(m, i),
              capacity        |-> LoadWord(m, i + WordSize),
              previous_offset |-> LoadWord(m, i + 2 * WordSize)]
    ELSE g

\* The header fields in memory order.
HeaderWords(h) == <<h.padding, h.capacity, h.previous_offset>>

\* Store of the header h at addr (the bytes that fall inside the buffer).
StoreHeader(m, addr, h) ==
    LET i == IndexOf(addr)
    IN  [j \in DOMAIN m |->
            IF j >= i /\ j < i + HeaderSize
            THEN ByteOf(HeaderWords(h)[((j - i) \div WordSize) + 1], (j - i) % WordSize)
            ELSE m[j]]

\* yo_memory_set: memset unless size_bytes is zero.
memory_set(m, addr, size_bytes, fill) ==
    LET i == IndexOf(addr)
    IN  [j \in DOMAIN m |-> IF j >= i /\ j - i < size_bytes THEN fill ELSE m[j]]

\* A copy in the wrong direction, from dst to src.
memory_copy_backwards(m, dst, src, size_bytes) ==
    LET d == IndexOf(src)
        s == IndexOf(dst)
    IN  [j \in DOMAIN m |->
            IF j >= d /\ j - d < size_bytes /\ (s + (j - d)) \in DOMAIN m
            THEN m[s + (j - d)]
            ELSE m[j]]

\* yo_memory_copy: memcpy of size_bytes bytes from src to dst unless size_bytes is zero.
memory_copy(m, dst, src, size_bytes) ==
    LET d == IndexOf(dst)
        s == IndexOf(src)
    IN  [j \in DOMAIN m |->
            IF j >= d /\ j - d < size_bytes /\ (s + (j - d)) \in DOMAIN m
            THEN m[s + (j - d)]
            ELSE m[j]]

\* ---------------------------------------------------------------------------
\* Memory alignment.
\* ---------------------------------------------------------------------------

\* alignment is a power of two, so ptr_addr & (alignment - 1) is ptr_addr % alignment.
padding_with_header(ptr_addr, alignment, header_size, header_alignment) ==
    LET mod_align  == ptr_addr % alignment
        padding1   == IF mod_align # 0 THEN alignment - mod_align ELSE 0
        ptr_addr1  == UAdd(ptr_addr, padding1)
        mod_header == ptr_addr1 % header_alignment
        padding2   == IF mod_header # 0 THEN padding1 + (header_alignment - mod_header) ELSE padding1
    IN  UAdd(padding2, header_size)

\* ---------------------------------------------------------------------------
\* Stack operations.  s is the allocator state [offset, previous_offset, mem];
\* each operation yields [ret, st, oob]: the value returned, the state left
\* behind, and whether it touched memory outside the buffer.
\* ---------------------------------------------------------------------------

This == [offset |-> offset, previous_offset |-> previous_offset, mem |-> mem]

Result(r, s, o) == [ret |-> r, st |-> s, oob |-> o]

\* psh_impl_return_from_memory_error() with YO_ENABLE_ABORT_AT_MEMORY_ERROR 0: return NULL.
return_from_memory_error(s) == Result(NULL, s, FALSE)

\* alloc_align with the offsets moved before the room is checked.
alloc_align_commits_first(s, size_bytes, alignment) ==
    LET current_offset == s.offset
        padding        == padding_with_header(UAdd(buf, current_offset), alignment,
                                              HeaderSize, HeaderAlign)
        moved          == [s EXCEPT !.previous_offset = UAdd(current_offset, padding),
                                    !.offset = UAdd(UAdd(current_offset, padding), size_bytes)]
    IN  IF capacity = 0 \/ size_bytes = 0 THEN Result(NULL, s, FALSE)
        ELSE IF UAdd(padding, size_bytes) > USub(capacity, current_offset)
        THEN Result(NULL, moved, FALSE)
        ELSE Result(UAdd(UAdd(buf, current_offset), padding),
                    [moved EXCEPT !.mem =
                        memory_set(StoreHeader(s.mem, UAdd(buf, current_offset + padding - HeaderSize),
                                               [padding |-> padding, capacity |-> size_bytes,
                                                previous_offset |-> s.previous_offset]),
                                   UAdd(UAdd(buf, current_offset), padding), size_bytes, 0)],
                    FALSE)

\* alloc_align that writes the header and leaves the bytes of the block as they are.
alloc_align_keeps_bytes(s, size_bytes, alignment) ==
    LET current_offset == s.offset
        free_memory    == UAdd(buf, current_offset)
        padding        == padding_with_header(free_memory, alignment, HeaderSize, HeaderAlign)
        new_block      == UAdd(free_memory, padding)
        new_header     == USub(new_block, HeaderSize)
        header         == [padding         |-> padding,
                           capacity        |-> size_bytes,
                           previous_offset |-> s.previous_offset]
    IN  IF capacity = 0 \/ size_bytes = 0 THEN Result(NULL, s, FALSE)
        ELSE IF UAdd(padding, size_bytes) > USub(capacity, current_offset)
        THEN Result(NULL, s, FALSE)
        ELSE Result(new_block,
                    [offset          |-> UAdd(UAdd(current_offset, padding), size_bytes),
                     previous_offset |-> UAdd(current_offset, padding),
                     mem             |-> StoreHeader(s.mem, new_header, header)],
                    ~(InBuffer(new_header, HeaderSize) /\ InBuffer(new_block, size_bytes)))

\* alloc_align whose header records the offset of the new block as the previous one.
alloc_align_links_to_itself(s, size_bytes, alignment) ==
    LET current_offset == s.offset
        free_memory    == UAdd(buf, current_offset)
        padding        == padding_with_header(free_memory, alignment, HeaderSize, HeaderAlign)
        new_block      == UAdd(free_memory, padding)
        new_header     == USub(new_block, HeaderSize)
        header         == [padding         |-> padding,
                           capacity        |-> size_bytes,
                           previous_offset |-> UAdd(current_offset, padding)]
    IN  IF capacity = 0 \/ size_bytes = 0 THEN Result(NULL, s, FALSE)
        ELSE IF UAdd(padding, size_bytes) > USub(capacity, current_offset)
        THEN Result(NULL, s, FALSE)
        ELSE Result(new_block,
                    [offset          |-> UAdd(UAdd(current_offset, padding), size_bytes),
                     previous_offset |-> UAdd(current_offset, padding),
                     mem             |-> memory_set(StoreHeader(s.mem, new_header, header),
                                                    new_block, size_bytes, 0)],
                    ~(InBuffer(new_header, HeaderSize) /\ InBuffer(new_block, size_bytes)))

alloc_align(s, size_bytes, alignment) ==
    LET current_capacity == capacity
        current_offset   == s.offset
        free_memory      == UAdd(buf, current_offset)
        padding          == padding_with_header(free_memory, alignment, HeaderSize, HeaderAlign)
        required_bytes   == UAdd(padding, size_bytes)
        new_block        == UAdd(free_memory, padding)
        new_header       == USub(new_block, HeaderSize)
        header           == [padding         |-> padding,
                             capacity        |-> size_bytes,
                             previous_offset |-> s.previous_offset]
    IN  IF current_capacity = 0 \/ size_bytes = 0 THEN Result(NULL, s, FALSE)
        ELSE IF required_bytes > USub(current_capacity, current_offset)
        THEN return_from_memory_error(s)
        ELSE Result(new_block,
                    [offset          |-> UAdd(UAdd(current_offset, padding), size_bytes),
                     previous_offset |-> UAdd(current_offset, padding),
                     mem             |-> memory_set(StoreHeader(s.mem, new_header, header),
                                                    new_block, size_bytes, 0)],
                    ~(InBuffer(new_header, HeaderSize) /\ InBuffer(new_block, size_bytes)))

\* psh_ptr_add with YO_ENABLE_SAFE_POINTER_ARITHMETIC 0.
top(s) == UAdd(buf, s.previous_offset)

\* pop that takes the padding of every block to be the size of its header.
pop_ignores_padding(s, g) ==
    IF s.previous_offset = 0 THEN Result(STATUS_FAILED, s, FALSE)
    ELSE LET top_header == USub(UAdd(buf, s.previous_offset), HeaderSize)
             header     == LoadHeader(s.mem, top_header, g)
         IN  Result(STATUS_OK,
                    [offset          |-> USub(s.previous_offset, HeaderSize),
                     previous_offset |-> header.previous_offset,
                     mem             |-> s.mem],
                    ~InBuffer(top_header, HeaderSize))

\* pop without the check for the empty stack.
pop_unchecked(s, g) ==
    LET top_header == USub(UAdd(buf, s.previous_offset), HeaderSize)
        header     == LoadHeader(s.mem, top_header, g)
    IN  Result(STATUS_OK,
               [offset          |-> USub(s.previous_offset, header.padding),
                previous_offset |-> header.previous_offset,
                mem             |-> s.mem],
               ~InBuffer(top_header, HeaderSize))

pop(s, g) ==
    IF s.previous_offset = 0 THEN Result(STATUS_FAILED, s, FALSE)
    ELSE LET top_addr   == UAdd(buf, s.previous_offset)
             top_header == USub(top_addr, HeaderSize)
             header     == LoadHeader(s.mem, top_header, g)
         IN  Result(STATUS_OK,
                    [offset          |-> USub(s.previous_offset, header.padding),
                     previous_offset |-> header.previous_offset,
                     mem             |-> s.mem],
                    ~InBuffer(top_header, HeaderSize))

\* clear_at that moves the offset to the block's header instead of to the start of its padding.
clear_at_ignores_padding(s, block, g) ==
    IF block = NULL THEN Result(STATUS_FAILED, s, FALSE)
    ELSE IF (block < buf) \/ (block > UAdd(buf, s.previous_offset))
    THEN Result(STATUS_FAILED, s, FALSE)
    ELSE LET header_addr == USub(block, HeaderSize)
             header      == LoadHeader(s.mem, header_addr, g)
         IN  Result(STATUS_OK,
                    [offset          |-> no_wrap_sub(no_wrap_sub(block, HeaderSize), buf),
                     previous_offset |-> header.previous_offset,
                     mem             |-> s.mem],
                    ~InBuffer(header_addr, HeaderSize))

\* clear_at that frees the block and leaves previous_offset as it is.
clear_at_keeps_previous_offset(s, block, g) ==
    IF block = NULL THEN Result(STATUS_FAILED, s, FALSE)
    ELSE IF (block < buf) \/ (block > UAdd(buf, s.previous_offset))
    THEN return_from_memory_error(s)
    ELSE LET header_addr == USub(block, HeaderSize)
             header      == LoadHeader(s.mem, header_addr, g)
         IN  Result(STATUS_OK,
                    [offset          |-> no_wrap_sub(no_wrap_sub(block, header.padding), buf),
                     previous_offset |-> s.previous_offset,
                     mem             |-> s.mem],
                    ~InBuffer(header_addr, HeaderSize))

clear_at(s, block, g) ==
    IF block = NULL THEN Result(STATUS_FAILED, s, FALSE)
    ELSE IF (block < buf) \/ (block > UAdd(buf, s.previous_offset))
    THEN return_from_memory_error(s)
    ELSE LET header_addr == USub(block, HeaderSize)
             header      == LoadHeader(s.mem, header_addr, g)
         IN  Result(STATUS_OK,
                    [offset          |-> no_wrap_sub(no_wrap_sub(block, header.padding), buf),
                     previous_offset |-> header.previous_offset,
                     mem             |-> s.mem],
                    ~InBuffer(header_addr, HeaderSize))

\* The in-place branch growing the block from the current offset instead of from its start.
realloc_top_from_offset(s, block, new_size_bytes) ==
    [ret |-> block,
     st  |-> [s EXCEPT !.offset = UAdd(s.offset, new_size_bytes)],
     oob |-> FALSE]

\* The branch of realloc_align for the last allocated block: just adjust the offsets.
realloc_top(s, block, new_size_bytes) ==
    Result(block,
           [offset          |-> UAdd(s.previous_offset, new_size_bytes),
            previous_offset |-> s.previous_offset,
            mem             |-> s.mem],
           FALSE)

\* realloc_align that frees only the top block when new_size_bytes is zero.
realloc_align_pops(s, block, new_size_bytes, alignment, g) ==
    IF new_size_bytes = 0
    THEN LET r == pop(s, g) IN Result(NULL, r.st, r.oob)
    ELSE IF block = top(s)
    THEN realloc_top(s, block, new_size_bytes)
    ELSE return_from_memory_error(s)

realloc_align(s, block, new_size_bytes, alignment, g) ==
    IF new_size_bytes = 0
    THEN LET r == clear_at(s, block, g) IN Result(NULL, r.st, r.oob)
    ELSE IF block = top(s)
    THEN realloc_top(s, block, new_size_bytes)
    ELSE IF (block < buf) \/ (block >= UAdd(buf, capacity))
    THEN return_from_memory_error(s)
    ELSE IF block >= UAdd(buf, s.offset)
    THEN return_from_memory_error(s)
    ELSE IF new_size_bytes > USub(capacity, s.offset)
    THEN return_from_memory_error(s)
    ELSE LET header_addr == USub(block, HeaderSize)
             header      == LoadHeader(s.mem, header_addr, g)
             a           == alloc_align(s, new_size_bytes, alignment)
             new_mem     == a.ret
             copy_size   == psh_min_value(header.capacity, new_size_bytes)
         IN  Result(new_mem,
                    [offset          |-> a.st.offset,
                     previous_offset |-> a.st.previous_offset,
                     mem             |-> memory_copy(a.st.mem, new_mem, block, copy_size)],
                    \/ a.oob
                    \/ ~InBuffer(header_addr, HeaderSize)
                    \/ (copy_size # 0 /\ ~(InBuffer(new_mem, copy_size) /\ InBuffer(block, copy_size))))

clear(s) == Result(NULL, [offset |-> 0, previous_offset |-> 0, mem |-> s.mem], FALSE)

\* The address psh_ptr_add yields for the header of the top block.
top_header(s) == UAdd(buf, USub(s.previous_offset, HeaderSize))

\* g is what the load of a header outside the buffer yields.
top_size(s, g) ==
    IF top_header(s) = NULL THEN 0 ELSE LoadHeader(s.mem, top_header(s), g).capacity

top_previous_offset(s, g) ==
    IF top_header(s) = NULL THEN 0 ELSE LoadHeader(s.mem, top_header(s), g).previous_offset

\* header_of as written: the header is taken sizeof(StackHeader) above the block.
header_of(s, block) ==
    LET memory_start == buf
        block_header == UAdd(block, HeaderSize)
        valid        == /\ block # NULL
                        /\ block >= memory_start
                        /\ block <= UAdd(memory_start, capacity)
                        /\ block <= UAdd(memory_start, s.previous_offset)
                        /\ block_header >= memory_start
    IN  IF valid THEN block_header ELSE NULL

size_of(s, block, g) ==
    IF header_of(s, block) = NULL THEN 0
    ELSE LoadHeader(s.mem, header_of(s, block), g).capacity

previous_offset_of(s, block, g) ==
    IF header_of(s, block) = NULL THEN 0
    ELSE LoadHeader(s.mem, header_of(s, block), g).previous_offset

\* ---------------------------------------------------------------------------
\* Arena operations.  The arena uses buf, capacity and offset; s and the
\* results are as for the stack.
\* ---------------------------------------------------------------------------

\* align_forward that moves an aligned address to the next multiple as well.
align_forward_always_moves(ptr_addr, alignment) ==
    UAdd(ptr_addr, alignment - (ptr_addr % alignment))

\* alignment is a power of two, so ptr_addr & (alignment - 1) is ptr_addr % alignment.
align_forward(ptr_addr, alignment) ==
    LET mod_align == ptr_addr % alignment
    IN  IF mod_align # 0 THEN UAdd(ptr_addr, alignment - mod_align) ELSE ptr_addr

arena_alloc_align(s, size_bytes, alignment) ==
    LET memory_addr    == buf
        new_block_addr == align_forward(UAdd(memory_addr, s.offset), alignment)
    IN  IF size_bytes = 0 THEN Result(NULL, s, FALSE)
        ELSE IF UAdd(new_block_addr, size_bytes) > UAdd(capacity, memory_addr)
        THEN return_from_memory_error(s)
        ELSE Result(new_block_addr,
                    [offset          |-> USub(UAdd(size_bytes, new_block_addr), memory_addr),
                     previous_offset |-> s.previous_offset,
                     mem             |-> memory_set(s.mem, new_block_addr, size_bytes, 0)],
                    ~InBuffer(new_block_addr, size_bytes))

\* yo_memory_move: memmove of size_bytes bytes from src to dst unless size_bytes is zero.
memory_move(m, dst, src, size_bytes) == memory_copy(m, dst, src, size_bytes)

arena_realloc_align(s, block, current_size_bytes, new_size_bytes, alignment) ==
    LET memory_addr      == buf
        memory_end       == UAdd(memory_addr, capacity)
        memory_offset    == s.offset
        free_memory_addr == UAdd(memory_addr, memory_offset)
        block_addr       == block
    IN  IF (block_addr < memory_addr) \/ (block_addr >= memory_end)
        THEN return_from_memory_error(s)
        ELSE IF block_addr >= free_memory_addr
        THEN return_from_memory_error(s)
        ELSE IF current_size_bytes > memory_offset
        THEN return_from_memory_error(s)
        ELSE IF block_addr = USub(free_memory_addr, current_size_bytes)
        THEN IF UAdd(block_addr, new_size_bytes) > memory_end
             THEN return_from_memory_error(s)
             ELSE Result(block,
                         [s EXCEPT !.offset =
                             UAdd(memory_offset, USub(new_size_bytes, current_size_bytes))],
                         FALSE)
        ELSE LET a         == arena_alloc_align(s, new_size_bytes, alignment)
                 new_block == a.ret
                 move_size == psh_min_value(current_size_bytes, new_size_bytes)
             IN  Result(new_block,
                        [a.st EXCEPT !.mem = memory_move(a.st.mem, new_block, block, move_size)],
                        \/ a.oob
                        \/ (move_size # 0 /\ ~(InBuffer(new_block, move_size)
                                                /\ InBuffer(block, move_size))))

arena_clear(s) == Result(NULL, [s EXCEPT !.offset = 0], FALSE)

\* A checkpoint value: whether it refers to the arena, and the saved offset.
\* `restored` is not a field of the struct: it records that the caller has
\* passed this checkpoint to a restore.
make_arena_checkpoint(s) == [arena |-> TRUE, saved_offset |-> s.offset, restored |-> FALSE]

checkpoint_restore_keeps_offset(s, checkpoint) ==
    Result(NULL, s, ~checkpoint.arena)

\* yo_arena_checkpoint_restore takes the checkpoint by value: it stores the
\* saved offset through checkpoint.arena (a store through null if the value
\* does not refer to the arena) and sets the arena field of its own copy to
\* null, which the caller's checkpoint never sees.
checkpoint_restore(s, checkpoint) ==
    Result(NULL, [s EXCEPT !.offset = checkpoint.saved_offset], ~checkpoint.arena)

\* ---------------------------------------------------------------------------
\* Inputs of the calls.
\* ---------------------------------------------------------------------------

\* The buffers a stack is constructed over: none, an aligned one, a misaligned one.
Buffers == {<<NULL, 0>>, <<BufBase, MaxCapacity>>, <<BufBase + 4, MaxCapacity>>}

\* What the caller's buffer holds when the stack is constructed over it.
InitFills == {255}

\* The alignments callers request: that of bytes, that of the header and a stricter one.
Aligns == {1, HeaderAlign, 2 ^ MaxAlignLog}

\* The alignments passed to realloc_align, which uses them only when it moves the block.
ReallocAligns == {1, 2 ^ MaxAlignLog}

\* A size so large that adding a minimal padding to it wraps around to zero.
HugeSize == UsizeMod - HeaderSize

\* The largest size that fits after the padding of an allocation with this alignment.
FitSize(alignment) ==
    capacity - offset - padding_with_header(UAdd(buf, offset), alignment, HeaderSize, HeaderAlign)

AllocSizes(alignment) ==
    {0, 1, HugeSize}
        \cup {n \in {FitSize(alignment), FitSize(alignment) + 1} : n > 0 /\ n < UsizeMod}

\* Sizes for realloc: free, shrink, grow, and one byte more than the room above the top block.
ReallocSizes ==
    {0, 1, SmallSize} \cup {n \in {capacity - previous_offset + 1} : n > 0 /\ n < UsizeMod}

\* Pointers callers pass: the blocks they hold, null, and addresses around the
\* buffer, the top block and the free region.
PtrInputs ==
    {blocks[i].ptr : i \in 1..Len(blocks)}
        \cup {NULL, buf, USub(buf, 1), UAdd(buf, previous_offset),
               UAdd(buf, previous_offset + 1), UAdd(buf, offset), UAdd(buf, capacity)}

\* The byte a caller stores at position k of a block: never zero, never the
\* initial fill, and different at neighbouring positions.
CallerByte(k) == 1 + (k % 200)

\* The caller's store of its data into the size_bytes bytes of the block at ptr.
CallerWrite(m, ptr, size_bytes) ==
    LET i == IndexOf(ptr)
    IN  [j \in DOMAIN m |-> IF j >= i /\ j - i < size_bytes THEN CallerByte(j - i) ELSE m[j]]

\* What a load outside the buffer may yield.
GarbageWords == {0, UsizeMod - 1}

ZeroHeader == [padding |-> 0, capacity |-> 0, previous_offset |-> 0]

GarbageHeaders(addr) ==
    IF InBuffer(addr, HeaderSize) THEN {ZeroHeader}
    ELSE [padding : GarbageWords, capacity : {0}, previous_offset : GarbageWords]

\* ---------------------------------------------------------------------------
\* The state machine: one action per public operation of the stack.
\* ---------------------------------------------------------------------------

\* A call as the caller sees it: its arguments, the value returned, whether it
\* touched memory outside the buffer, and the allocator and the blocks held
\* when it was made.
Call(op, block, size_bytes, alignment, r) ==
    [op |-> op, block |-> block, size_bytes |-> size_bytes, alignment |-> alignment,
     ret |-> r.ret, oob |-> r.oob, before |-> This, held |-> blocks]

NoCall == [op |-> "none"]

\* An allocator with both offsets at zero over the caller's memory.
Constructed ==
    /\ \E b \in Buffers : buf = b[1] /\ capacity = b[2]
    /\ offset = 0
    /\ previous_offset = 0
    /\ \E fill \in InitFills : mem = [j \in 0..(capacity - 1) |-> fill]
    /\ call = NoCall
    /\ blocks = <<>>
    /\ trusted = TRUE
    /\ alive = TRUE
    /\ ncalls = 0
    /\ checkpoints = <<>>
    /\ allocation_count = 0

\* Stack::init over the caller's memory.
Init == Constructed /\ allocator = "stack" /\ budget = MaxCalls

\* The caller makes its next call: the last one has returned, nothing undefined
\* has happened, and calls remain.
Running == alive /\ call.op = "none" /\ ncalls < budget

Commit(r) ==
    /\ offset' = r.st.offset
    /\ previous_offset' = r.st.previous_offset
    /\ mem' = r.st.mem
    /\ alive' = ~r.oob
    /\ ncalls' = ncalls + 1
    /\ UNCHANGED <<buf, capacity, allocator, budget>>

\* The record of a block: where it is, what was asked, and the offsets before it.
Block(ptr, size_bytes, alignment) ==
    [ptr |-> ptr, size_bytes |-> size_bytes, alignment |-> alignment,
     offset |-> offset, previous_offset |-> previous_offset]

Held(ptr) == \E i \in 1..Len(blocks) : blocks[i].ptr = ptr

\* The blocks below the one at ptr, or none when the caller holds no block at ptr.
BlocksBelow(ptr) ==
    IF \E i \in 1..Len(blocks) : blocks[i].ptr = ptr
    THEN SubSeq(blocks, 1, (CHOOSE i \in 1..Len(blocks) : blocks[i].ptr = ptr) - 1)
    ELSE <<>>

AllocAlign ==
    /\ Running
    /\ \E alignment \in Aligns : \E size_bytes \in AllocSizes(alignment) :
        \E r \in {alloc_align(This, size_bytes, alignment)} :
            /\ Commit(r)
            /\ call' = Call("alloc_align", NULL, size_bytes, alignment, r)
            /\ blocks' = IF r.ret # NULL
                         THEN Append(blocks, Block(r.ret, size_bytes, alignment))
                         ELSE blocks
            /\ UNCHANGED <<trusted, checkpoints, allocation_count>>

ReallocAlign ==
    /\ Running
    /\ \E block \in PtrInputs : \E new_size_bytes \in ReallocSizes : \E alignment \in ReallocAligns :
       \E g \in GarbageHeaders(USub(block, HeaderSize)) :
        \E r \in {realloc_align(This, block, new_size_bytes, alignment, g)} :
            /\ Commit(r)
            /\ call' = Call("realloc_align", block, new_size_bytes, alignment, r)
            /\ blocks' = IF new_size_bytes = 0
                         THEN (IF r.st = This THEN blocks ELSE BlocksBelow(block))
                         ELSE IF r.ret # NULL /\ r.ret # block
                         THEN Append(blocks, Block(r.ret, new_size_bytes, alignment))
                         ELSE IF r.ret = block /\ blocks # <<>> /\ blocks[Len(blocks)].ptr = block
                         THEN [blocks EXCEPT ![Len(blocks)].size_bytes = new_size_bytes]
                         ELSE blocks
            /\ trusted' = (trusted /\ (r.st = This \/ Held(block)))
            /\ UNCHANGED <<checkpoints, allocation_count>>

Pop ==
    /\ Running
    /\ \E g \in GarbageHeaders(USub(UAdd(buf, previous_offset), HeaderSize)) :
        \E r \in {pop(This, g)} :
            /\ Commit(r)
            /\ call' = Call("pop", NULL, 0, 1, r)
            /\ blocks' = IF r.ret = STATUS_OK /\ blocks # <<>>
                         THEN SubSeq(blocks, 1, Len(blocks) - 1)
                         ELSE blocks
            /\ UNCHANGED <<trusted, checkpoints, allocation_count>>

ClearAt ==
    /\ Running
    /\ \E block \in PtrInputs : \E g \in GarbageHeaders(USub(block, HeaderSize)) :
        \E r \in {clear_at(This, block, g)} :
            /\ Commit(r)
            /\ call' = Call("clear_at", block, 0, 1, r)
            /\ blocks' = IF r.ret = STATUS_OK THEN BlocksBelow(block) ELSE blocks
            /\ trusted' = (trusted /\ (r.ret = STATUS_FAILED \/ Held(block)))
            /\ UNCHANGED <<checkpoints, allocation_count>>

Clear ==
    /\ Running
    /\ \E r \in {clear(This)} :
            /\ Commit(r)
            /\ call' = Call("clear", NULL, 0, 1, r)
            /\ blocks' = <<>>
            /\ UNCHANGED <<trusted, checkpoints, allocation_count>>

\* The caller fills the block it allocated last, which it may do at any time
\* between its calls.
Write ==
    /\ Running
    /\ blocks # <<>>
    /\ InBuffer(blocks[Len(blocks)].ptr, blocks[Len(blocks)].size_bytes)
    /\ mem' = CallerWrite(mem, blocks[Len(blocks)].ptr, blocks[Len(blocks)].size_bytes)
    /\ mem' # mem
    /\ ncalls' = ncalls + 1
    /\ UNCHANGED <<buf, capacity, offset, previous_offset, call, blocks, trusted, alive,
                   allocator, checkpoints, budget, allocation_count>>

\* The caller has taken the result of its last call.
Return ==
    /\ alive
    /\ call.op # "none"
    /\ call' = NoCall
    /\ UNCHANGED <<buf, capacity, offset, previous_offset, mem, blocks, trusted,
                   alive, ncalls, allocator, checkpoints, budget, allocation_count>>

Next == AllocAlign \/ ReallocAlign \/ Pop \/ ClearAt \/ Clear \/ Write \/ Return

Spec == Init /\ [][Next]_vars

\* ---------------------------------------------------------------------------
\* The state machine of the arena: one action per operation of the arena.
\* ---------------------------------------------------------------------------

\* An arena over the caller's memory.
ArenaInit == Constructed /\ allocator = "arena" /\ budget = MaxArenaCalls

\* The alignments callers of the arena request: that of bytes and a stricter one.
ArenaAligns == {1, 2 ^ MaxAlignLog}

\* The largest size that fits after the alignment of an arena allocation.
ArenaFitSize(alignment) == capacity - USub(align_forward(UAdd(buf, offset), alignment), buf)

ArenaAllocSizes(alignment) ==
    {0, 1, HugeSize}
        \cup {n \in {ArenaFitSize(alignment), ArenaFitSize(alignment) + 1} : n > 0 /\ n < UsizeMod}

\* Pointers callers pass to the arena: the blocks they hold, null, and
\* addresses around the buffer and the free region.
ArenaPtrInputs ==
    {blocks[i].ptr : i \in 1..Len(blocks)}
        \cup {NULL, buf, USub(buf, 1), UAdd(buf, offset), UAdd(buf, capacity)}

\* The current size a caller states for a block: the size it holds the block
\* with, or another.
CurrentSizes(block) ==
    {blocks[i].size_bytes : i \in {j \in 1..Len(blocks) : blocks[j].ptr = block}}
        \cup {SmallSize}

\* New sizes for arena realloc: shrink, grow, and one byte more than the room
\* from the block to the end of the buffer.
ArenaReallocSizes(block) ==
    {1, SmallSize, HugeSize}
        \cup {n \in {capacity - USub(block, buf) + 1} : n > 0 /\ n < UsizeMod}

\* The blocks that end at or below the offset new_offset.
BlocksUpTo(new_offset) ==
    SelectSeq(blocks, LAMBDA b : USub(b.ptr, buf) + b.size_bytes <= new_offset)

ArenaAllocAlign ==
    /\ Running
    /\ \E alignment \in ArenaAligns : \E size_bytes \in ArenaAllocSizes(alignment) :
        \E r \in {arena_alloc_align(This, size_bytes, alignment)} :
            /\ Commit(r)
            /\ call' = Call("arena_alloc_align", NULL, size_bytes, alignment, r)
            /\ blocks' = IF r.ret # NULL
                         THEN Append(blocks, Block(r.ret, size_bytes, alignment))
                         ELSE blocks
            /\ UNCHANGED <<trusted, checkpoints, allocation_count>>

ArenaReallocAlign ==
    /\ Running
    /\ \E block \in ArenaPtrInputs : \E current_size_bytes \in CurrentSizes(block) :
       \E new_size_bytes \in ArenaReallocSizes(block) : \E alignment \in ArenaAligns :
        \E r \in {arena_realloc_align(This, block, current_size_bytes, new_size_bytes, alignment)} :
            /\ Commit(r)
            /\ call' = [Call("arena_realloc_align", block, new_size_bytes, alignment, r)
                            EXCEPT !.alignment = alignment]
                            @@ [current_size_bytes |-> current_size_bytes]
            /\ blocks' = IF r.ret # NULL /\ r.ret # block
                         THEN Append(blocks, Block(r.ret, new_size_bytes, alignment))
                         ELSE IF r.ret = block /\ blocks # <<>> /\ blocks[Len(blocks)].ptr = block
                         THEN [blocks EXCEPT ![Len(blocks)].size_bytes = new_size_bytes]
                         ELSE blocks
            /\ trusted' = (trusted /\ (r.st = This
                                        \/ \E i \in 1..Len(blocks) :
                                              /\ blocks[i].ptr = block
                                              /\ blocks[i].size_bytes = current_size_bytes))
            /\ UNCHANGED <<checkpoints, allocation_count>>

ArenaClear ==
    /\ Running
    /\ \E r \in {arena_clear(This)} :
            /\ Commit(r)
            /\ call' = Call("arena_clear", NULL, 0, 1, r)
            /\ blocks' = <<>>
            /\ UNCHANGED <<trusted, checkpoints, allocation_count>>

MakeArenaCheckpoint ==
    /\ Running
    /\ Len(checkpoints) < MaxCheckpoints
    /\ checkpoints' = Append(checkpoints, make_arena_checkpoint(This))
    /\ call' = Call("make_arena_checkpoint", NULL, 0, 1, Result(NULL, This, FALSE))
    /\ ncalls' = ncalls + 1
    /\ UNCHANGED <<buf, capacity, offset, previous_offset, mem, blocks, trusted, alive,
                   allocator, budget, allocation_count>>

\* The caller restores one of the checkpoint values it holds, which the call
\* leaves as it was.
CheckpointRestore ==
    /\ alive
    /\ call.op = "none"
    /\ \E i \in 1..Len(checkpoints) :
        \E r \in {checkpoint_restore(This, checkpoints[i])} :
            /\ offset' = r.st.offset
            /\ alive' = ~r.oob
            /\ call' = Call("checkpoint_restore", i, 0, 1, r)
                        @@ [restored |-> checkpoints[i].restored]
            /\ checkpoints' = [checkpoints EXCEPT ![i].restored = TRUE]
            /\ blocks' = BlocksUpTo(r.st.offset)
            /\ UNCHANGED <<buf, capacity, previous_offset, mem, trusted, ncalls, allocator,
                           budget, allocation_count>>

ArenaNext ==
    \/ ArenaAllocAlign
    \/ ArenaReallocAlign
    \/ ArenaClear
    \/ MakeArenaCheckpoint
    \/ CheckpointRestore
    \/ Write
    \/ Return

ArenaSpec == ArenaInit /\ [][ArenaNext]_vars

\* ---------------------------------------------------------------------------
\* The alignment functions on their own, applied to every address.
\* ---------------------------------------------------------------------------

\* The powers of two callers align to.
PowersOfTwo == {2 ^ k : k \in 0..MaxAlignLog}

\* Every address of the address space.
Addresses == 0..(UsizeMod - 1)

AlignInit ==
    /\ buf = NULL
    /\ capacity = 0
    /\ offset = 0
    /\ previous_offset = 0
    /\ mem = [j \in 0..(capacity - 1) |-> 0]
    /\ call = NoCall
    /\ blocks = <<>>
    /\ trusted = TRUE
    /\ alive = TRUE
    /\ ncalls = 0
    /\ checkpoints = <<>>
    /\ allocator = "none"
    /\ budget = 0
    /\ allocation_count = 0

AlignForward ==
    /\ call.op = "none"
    /\ \E ptr_addr \in Addresses : \E alignment \in PowersOfTwo :
        call' = [op |-> "align_forward", ptr_addr |-> ptr_addr, alignment |-> alignment,
                 ret |-> align_forward(ptr_addr, alignment)]
    /\ UNCHANGED <<buf, capacity, offset, previous_offset, mem, blocks, trusted, alive,
                   ncalls, allocator, checkpoints, budget, allocation_count>>

AlignNext == AlignForward \/ Return

AlignSpec == AlignInit /\ [][AlignNext]_vars

\* ---------------------------------------------------------------------------
\* Either allocator over the caller's memory.
\* ---------------------------------------------------------------------------

AllocInit == Constructed /\ allocator \in {"stack", "arena"} /\ budget = MaxCalls

AllocNext ==
    \/ (allocator = "stack" /\ Next)
    \/ (allocator = "arena" /\ ArenaNext)

AllocSpec == AllocInit /\ [][AllocNext]_vars

\* ---------------------------------------------------------------------------
\* MemoryManager: a stack allocator and the count of the allocations made.
\* ---------------------------------------------------------------------------

MaxManagerCalls == 5

\* The result of a manager operation: that of the stack's, and the new count.
ManagerResult(r, count) ==
    [ret |-> r.ret, st |-> r.st, oob |-> r.oob, allocation_count |-> count]

\* MemoryManager::alloc<T>(length), with size_bytes = sizeof(T) * length and
\* alignment = alignof(T).
manager_alloc_counts_always(count, s, size_bytes, alignment) ==
    ManagerResult(alloc_align(s, size_bytes, alignment), UAdd(count, 1))

manager_alloc(count, s, size_bytes, alignment) ==
    LET new_mem == alloc_align(s, size_bytes, alignment)
    IN  ManagerResult(new_mem, IF new_mem.ret # NULL THEN UAdd(count, 1) ELSE count)

\* MemoryManager::realloc<T>(block, new_length), with new_size_bytes =
\* sizeof(T) * new_length and alignment = alignof(T).
manager_realloc(count, s, block, new_size_bytes, alignment, g) ==
    LET new_mem == realloc_align(s, block, new_size_bytes, alignment, g)
    IN  ManagerResult(new_mem, IF new_mem.ret # block THEN UAdd(count, 1) ELSE count)

manager_pop(count, s, g) ==
    LET st == pop(s, g)
    IN  ManagerResult(st, IF st.ret = STATUS_OK THEN USub(count, 1) ELSE count)

\* A loop that ends after its first pop.
clear_until_loop_pops_once(count, s, block, g, rounds) ==
    IF top(s) = buf
    THEN ManagerResult(Result(STATUS_OK, s, FALSE), count)
    ELSE [manager_pop(count, s, g) EXCEPT !.ret = STATUS_OK]

\* The loop of MemoryManager::clear_until. It is followed up to the first load
\* outside the buffer; a loop still running after `rounds` pops, more than
\* there can be blocks, is taken not to return.
RECURSIVE clear_until_loop(_, _, _, _, _)
clear_until_loop(count, s, block, g, rounds) ==
    LET memory_start == buf
        top_block    == top(s)
    IN  IF top_block = memory_start
        THEN ManagerResult(Result(STATUS_OK, s, FALSE), count)
        ELSE LET st        == pop(s, g)
                 new_count == IF st.ret = STATUS_OK THEN USub(count, 1) ELSE count
             IN  IF st.oob \/ rounds = 0
                 THEN ManagerResult(Result(STATUS_OK, st.st, TRUE), new_count)
                 ELSE IF top_block = block
                 THEN ManagerResult(Result(STATUS_OK, st.st, FALSE), new_count)
                 ELSE clear_until_loop(new_count, st.st, block, g, rounds - 1)

\* clear_until that pops the top block only.
manager_clear_until_pops_once(count, s, block, g) ==
    LET memory_start == buf
    IN  IF (block < memory_start) \/ (block > UAdd(memory_start, s.previous_offset))
        THEN ManagerResult(Result(STATUS_FAILED, s, FALSE), count)
        ELSE [manager_pop(count, s, g) EXCEPT !.ret = STATUS_OK]

manager_clear_until(count, s, block, g) ==
    LET memory_start == buf
    IN  IF (block < memory_start) \/ (block > UAdd(memory_start, s.previous_offset))
        THEN ManagerResult(Result(STATUS_FAILED, s, FALSE), count)
        ELSE clear_until_loop(count, s, block, g, capacity)

manager_clear(count, s) == ManagerResult(clear(s), 0)

\* MemoryManager::make_arena: Option<Arena> as a sequence of at most one arena.
make_arena(count, s, size) ==
    LET memory == manager_alloc(count, s, size, 1)
    IN  memory @@ [arena |-> IF memory.ret = NULL
                             THEN <<>>
                             ELSE <<[buf |-> memory.ret, capacity |-> size, offset |-> 0]>>]

\* MemoryManager::init: virtual memory is aligned, and there may be none.
ManagerInit ==
    /\ Constructed
    /\ buf \in {NULL, BufBase}
    /\ allocator = "manager"
    /\ budget = MaxManagerCalls

ManagerCommit(r) ==
    /\ Commit(r)
    /\ allocation_count' = r.allocation_count

\* The record of a manager call: that of the stack call and the count before it.
ManagerCall(op, block, size_bytes, alignment, r) ==
    Call(op, block, size_bytes, alignment, r)
        @@ [allocation_count |-> allocation_count, trusted |-> trusted]

\* The element types of alloc<T> and realloc<T>: bytes and words.
ManagerAligns == {1, WordSize}

ManagerPtrInputs == PtrInputs \cup {USub(UAdd(buf, previous_offset), 1)}

\* The header loaded outside the buffer by a loop of pops, if it loads one.
LoopGarbage(r) ==
    IF r.oob
    THEN [padding : GarbageWords, capacity : {0}, previous_offset : GarbageWords]
    ELSE {ZeroHeader}

ManagerAlloc ==
    /\ Running
    /\ \E alignment \in ManagerAligns :
       \E size_bytes \in {n \in AllocSizes(alignment) : n % alignment = 0} :
        \E r \in {manager_alloc(allocation_count, This, size_bytes, alignment)} :
            /\ ManagerCommit(r)
            /\ call' = ManagerCall("manager_alloc", NULL, size_bytes, alignment, r)
            /\ blocks' = IF r.ret # NULL
                         THEN Append(blocks, Block(r.ret, size_bytes, alignment))
                         ELSE blocks
            /\ UNCHANGED <<trusted, checkpoints>>

ManagerRealloc ==
    /\ Running
    /\ \E block \in PtrInputs : \E alignment \in ManagerAligns :
       \E new_size_bytes \in {n \in ReallocSizes : n % alignment = 0} :
       \E g \in GarbageHeaders(USub(block, HeaderSize)) :
        \E r \in {manager_realloc(allocation_count, This, block, new_size_bytes, alignment, g)} :
            /\ ManagerCommit(r)
            /\ call' = ManagerCall("manager_realloc", block, new_size_bytes, alignment, r)
            /\ blocks' = IF new_size_bytes = 0
                         THEN (IF r.st = This THEN blocks ELSE BlocksBelow(block))
                         ELSE IF r.ret # NULL /\ r.ret # block
                         THEN Append(blocks, Block(r.ret, new_size_bytes, alignment))
                         ELSE IF r.ret = block /\ blocks # <<>> /\ blocks[Len(blocks)].ptr = block
                         THEN [blocks EXCEPT ![Len(blocks)].size_bytes = new_size_bytes]
                         ELSE blocks
            /\ trusted' = (trusted /\ (r.st = This \/ Held(block)))
            /\ UNCHANGED checkpoints

ManagerPop ==
    /\ Running
    /\ \E g \in GarbageHeaders(USub(UAdd(buf, previous_offset), HeaderSize)) :
        \E r \in {manager_pop(allocation_count, This, g)} :
            /\ ManagerCommit(r)
            /\ call' = ManagerCall("manager_pop", NULL, 0, 1, r)
            /\ blocks' = IF r.ret = STATUS_OK /\ blocks # <<>>
                         THEN SubSeq(blocks, 1, Len(blocks) - 1)
                         ELSE blocks
            /\ UNCHANGED <<trusted, checkpoints>>

ManagerClearUntil ==
    /\ Running
    /\ \E block \in ManagerPtrInputs :
       \E g \in LoopGarbage(manager_clear_until(allocation_count, This, block, ZeroHeader)) :
        \E r \in {manager_clear_until(allocation_count, This, block, g)} :
            /\ ManagerCommit(r)
            /\ call' = ManagerCall("manager_clear_until", block, 0, 1, r)
            /\ blocks' = IF r.ret = STATUS_FAILED THEN blocks ELSE BlocksBelow(block)
            /\ trusted' = (trusted /\ (r.ret = STATUS_FAILED \/ Held(block)))
            /\ UNCHANGED checkpoints

ManagerClear ==
    /\ Running
    /\ \E r \in {manager_clear(allocation_count, This)} :
            /\ ManagerCommit(r)
            /\ call' = ManagerCall("manager_clear", NULL, 0, 1, r)
            /\ blocks' = <<>>
            /\ UNCHANGED <<trusted, checkpoints>>

MakeArena ==
    /\ Running
    /\ \E size \in AllocSizes(1) :
        \E r \in {make_arena(allocation_count, This, size)} :
            /\ ManagerCommit(r)
            /\ call' = ManagerCall("make_arena", NULL, size, 1, r) @@ [arena |-> r.arena]
            /\ blocks' = IF r.ret # NULL THEN Append(blocks, Block(r.ret, size, 1)) ELSE blocks
            /\ UNCHANGED <<trusted, checkpoints>>

ManagerNext ==
    \/ ManagerAlloc
    \/ ManagerRealloc
    \/ ManagerPop
    \/ ManagerClearUntil
    \/ ManagerClear
    \/ MakeArena
    \/ Write
    \/ Return

ManagerSpec == ManagerInit /\ [][ManagerNext]_vars

\* ---------------------------------------------------------------------------
\* The manager with a caller whose data looks like a block header, and who
\* frees the address behind that data as if it were a block.
\* ---------------------------------------------------------------------------

\* The sizes of the blocks such a caller allocates: a byte, and room for a header.
ForgeSizes == {1, HeaderSize}

\* The header a caller forges at ptr: that of a block right behind it whose
\* previous block is itself.
ForgedHeader(ptr) ==
    [padding         |-> HeaderSize,
     capacity        |-> 0,
     previous_offset |-> USub(UAdd(ptr, HeaderSize), buf)]

ForgeAlloc ==
    /\ Running
    /\ \E size_bytes \in ForgeSizes :
        \E r \in {manager_alloc(allocation_count, This, size_bytes, 1)} :
            /\ ManagerCommit(r)
            /\ call' = ManagerCall("manager_alloc", NULL, size_bytes, 1, r)
            /\ blocks' = IF r.ret # NULL
                         THEN Append(blocks, Block(r.ret, size_bytes, 1))
                         ELSE blocks
            /\ UNCHANGED <<trusted, checkpoints>>

\* The caller stores a forged header at the start of a block it holds.
ForgeHeader ==
    /\ Running
    /\ \E i \in 1..Len(blocks) :
        /\ blocks[i].size_bytes >= HeaderSize
        /\ InBuffer(blocks[i].ptr, blocks[i].size_bytes)
        /\ mem' = StoreHeader(mem, blocks[i].ptr, ForgedHeader(blocks[i].ptr))
    /\ mem' # mem
    /\ ncalls' = ncalls + 1
    /\ UNCHANGED <<buf, capacity, offset, previous_offset, call, blocks, trusted, alive,
                   allocator, checkpoints, budget, allocation_count>>

\* realloc<u8>(block, 0) of the address behind the first HeaderSize bytes of a
\* block the caller holds.
ForgeFree ==
    /\ Running
    /\ \E i \in 1..Len(blocks) :
       \E block \in {UAdd(blocks[i].ptr, HeaderSize)} :
       \E g \in GarbageHeaders(USub(block, HeaderSize)) :
        \E r \in {manager_realloc(allocation_count, This, block, 0, 1, g)} :
            /\ ManagerCommit(r)
            /\ call' = ManagerCall("manager_realloc", block, 0, 1, r)
            /\ blocks' = IF r.st = This THEN blocks ELSE BlocksBelow(block)
            /\ trusted' = (trusted /\ (r.st = This \/ Held(block)))
            /\ UNCHANGED checkpoints

ForgeNext == ManagerNext \/ ForgeAlloc \/ ForgeHeader \/ ForgeFree

ForgeSpec == ManagerInit /\ [][ForgeNext]_vars

\* ---------------------------------------------------------------------------
\* The older arena (struct yo_arena of arena.c): size, offset, buf.
\* ---------------------------------------------------------------------------

\* yo_arena_alloc_aligned: the block address is computed from the end of the
\* memory, mem_end, and the room is checked against mem_end.
yo_arena_alloc_aligned(s, size, align) ==
    LET mem_end        == UAdd(buf, capacity)
        new_block_addr == align_forward(mem_end, align)
    IN  IF size = 0 \/ capacity = 0 THEN Result(NULL, s, FALSE)
        ELSE IF UAdd(new_block_addr, size) > mem_end THEN Result(NULL, s, FALSE)
        ELSE Result(new_block_addr,
                    [offset          |-> USub(UAdd(size, new_block_addr), mem_end),
                     previous_offset |-> s.previous_offset,
                     mem             |-> memory_set(s.mem, new_block_addr, size, 0)],
                    ~InBuffer(new_block_addr, size))

\* yo_arena_reset
yo_arena_reset(s) == Result(NULL, [s EXCEPT !.offset = 0], FALSE)

YoArenaInit == Constructed /\ allocator = "yo_arena" /\ budget = MaxArenaCalls

\* The sizes callers of the older arena request.
YoArenaSizes == (0..SmallSize) \cup {capacity, HugeSize}

YoArenaAllocAligned ==
    /\ Running
    /\ \E align \in PowersOfTwo : \E size \in YoArenaSizes :
        \E r \in {yo_arena_alloc_aligned(This, size, align)} :
            /\ Commit(r)
            /\ call' = Call("yo_arena_alloc_aligned", NULL, size, align, r)
            /\ blocks' = IF r.ret # NULL
                         THEN Append(blocks, Block(r.ret, size, align))
                         ELSE blocks
            /\ UNCHANGED <<trusted, checkpoints, allocation_count>>

YoArenaReset ==
    /\ Running
    /\ \E r \in {yo_arena_reset(This)} :
            /\ Commit(r)
            /\ call' = Call("yo_arena_reset", NULL, 0, 1, r)
            /\ blocks' = <<>>
            /\ UNCHANGED <<trusted, checkpoints, allocation_count>>

YoArenaNext == YoArenaAllocAligned \/ YoArenaReset \/ Return

YoArenaSpec == YoArenaInit /\ [][YoArenaNext]_vars

\* ---------------------------------------------------------------------------
\* Properties of the stack allocator.
\* ---------------------------------------------------------------------------

Last(seq) == seq[Len(seq)]

\* The offsets of the allocator are those it had when the call was made.
OffsetsUnchanged ==
    /\ offset = call.before.offset
    /\ previous_offset = call.before.previous_offset

\* The call was made on the block the caller allocated last and still holds.
OnLastBlock == call.held # <<>> /\ Last(call.held).ptr = call.block

\* C1: after any sequence of alloc_align, realloc_align, pop, clear and of
\* clear_at on pointers the allocator returned, 0 <= previous_offset <= offset
\* <= capacity.
C1_OffsetsOrdered ==
    (trusted /\ alive) => (0 <= previous_offset /\ previous_offset <= offset /\ offset <= capacity)

\* C2: on a stack of capacity C > 0, alloc_align(s, a) with s > 0 returns
\* non-null if and only if padding_with_header(buf + offset, a, sizeof(header),
\* alignof(header)) + s <= C - offset.
C2_ExhaustionBoundary ==
    (call.op = "alloc_align" /\ capacity > 0 /\ call.size_bytes > 0)
        => ((call.ret # NULL)
                <=> (padding_with_header(buf + call.before.offset, call.alignment,
                                         HeaderSize, HeaderAlign) + call.size_bytes
                        <= capacity - call.before.offset))

\* C3: when alloc_align returns null, offset, previous_offset and every byte of
\* the buffer (so every block header) are as they were before the call.
C3_FailedAllocKeepsState ==
    (call.op = "alloc_align" /\ call.ret = NULL) => This = call.before

\* An allocation refused for lack of room on a stack that holds blocks.
C3_Witness ==
    /\ call.op = "alloc_align"
    /\ call.ret = NULL
    /\ call.size_bytes > 0
    /\ capacity > 0
    /\ call.held # <<>>

\* C4: the pointer returned by a successful alloc_align is a multiple of the
\* requested alignment, its header address is a multiple of alignof(StackHeader),
\* and the padding recorded in the header is at least sizeof(StackHeader).
C4_AllocAligned ==
    (call.op = "alloc_align" /\ call.ret # NULL /\ ~call.oob)
        => /\ call.ret % call.alignment = 0
           /\ (call.ret - HeaderSize) % HeaderAlign = 0
           /\ LoadHeader(mem, call.ret - HeaderSize, ZeroHeader).padding >= HeaderSize

\* C5: a pop that follows the allocation of the block the caller allocated last
\* succeeds and returns offset and previous_offset to their values before that
\* allocation; so N allocations followed by N pops return both to their values
\* before the sequence.
C5_LifoRoundTrip ==
    (call.op = "pop" /\ call.held # <<>>)
        => /\ call.ret = STATUS_OK
           /\ offset = Last(call.held).offset
           /\ previous_offset = Last(call.held).previous_offset

\* A pop of the upper of two blocks.
C5_Witness ==
    /\ call.op = "pop"
    /\ call.ret = STATUS_OK
    /\ Len(call.held) >= 2
    /\ previous_offset > 0

\* C6: pop on an empty stack (previous_offset = 0) returns failure and leaves
\* offset and previous_offset as they were; and the pop of the only block of a
\* stack that was empty before it leaves the stack empty, so that the pop after
\* it fails.
C6_PopOnEmptyFails ==
    /\ (call.op = "pop" /\ call.before.previous_offset = 0)
        => (call.ret = STATUS_FAILED /\ OffsetsUnchanged)
    /\ (call.op = "pop" /\ Len(call.held) = 1 /\ call.held[1].previous_offset = 0)
        => previous_offset = 0

\* A failed pop on a stack emptied after allocations had been made on it.
C6_Witness ==
    /\ call.op = "pop"
    /\ call.ret = STATUS_FAILED
    /\ capacity > 0
    /\ \E j \in DOMAIN mem : mem[j] \notin InitFills

\* C7: for held blocks X, Y, Z allocated in this order, clear_at(Y) succeeds,
\* afterwards top() is X's pointer and offset is the offset before Y was
\* allocated, and alloc_align with Y's size and alignment returns Y's address.
C7_ClearAtRollsBack ==
    call.op = "clear_at" =>
        \A i \in 2..(Len(call.held) - 1) :
            call.held[i].ptr = call.block
                => /\ call.ret = STATUS_OK
                   /\ top(This) = call.held[i - 1].ptr
                   /\ offset = call.held[i].offset
                   /\ alloc_align(This, call.held[i].size_bytes, call.held[i].alignment).ret
                        = call.held[i].ptr

\* clear_at on a block that has blocks both below and above it.
C7_Witness ==
    /\ call.op = "clear_at"
    /\ call.ret = STATUS_OK
    /\ \E i \in 2..(Len(call.held) - 1) : call.held[i].ptr = call.block

\* C8: clear_at returns failure and leaves offset and previous_offset as they
\* were when block is null, below buf, above buf + previous_offset, or at or
\* above buf + offset, the empty stack included.
C8_ClearAtRejectsInvalid ==
    (/\ call.op = "clear_at"
     /\ \/ call.block = NULL
        \/ call.block < buf
        \/ call.block > buf + call.before.previous_offset
        \/ call.block >= buf + call.before.offset)
        => (call.ret = STATUS_FAILED /\ OffsetsUnchanged)

\* C9: realloc_align with new_size > 0 on the block allocated last returns the
\* same address, sets offset to previous_offset + new_size, leaves
\* previous_offset as it was and changes no byte of the buffer.
C9_InPlaceRealloc ==
    (call.op = "realloc_align" /\ call.size_bytes > 0 /\ OnLastBlock)
        => /\ call.ret = call.block
           /\ offset = call.before.previous_offset + call.size_bytes
           /\ previous_offset = call.before.previous_offset
           /\ mem = call.before.mem

\* The last block grown in place within the buffer.
C9_Witness ==
    /\ call.op = "realloc_align"
    /\ OnLastBlock
    /\ call.size_bytes > Last(call.held).size_bytes
    /\ call.ret = call.block
    /\ offset <= capacity

\* C10: realloc_align on the block allocated last with new_size > capacity -
\* previous_offset returns null and leaves offset and previous_offset as they
\* were, so the block never extends past the end of the buffer.
C10_InPlaceCapacityCheck ==
    (/\ call.op = "realloc_align"
     /\ call.size_bytes > 0
     /\ OnLastBlock
     /\ call.size_bytes > capacity - call.before.previous_offset)
        => (call.ret = NULL /\ OffsetsUnchanged /\ offset <= capacity)

\* The size of the held block at ptr, as the caller last asked for it.
HeldSize(held, ptr) == held[CHOOSE i \in 1..Len(held) : held[i].ptr = ptr].size_bytes

\* C11: after an in-place realloc_align of the top block to new_size, the
\* capacity field of the block's header equals new_size, and top_size()
\* reports new_size.
C11_InPlaceUpdatesHeader ==
    (/\ call.op = "realloc_align"
     /\ call.size_bytes > 0
     /\ OnLastBlock
     /\ call.ret = call.block
     /\ offset <= capacity)
        => /\ LoadHeader(mem, call.ret - HeaderSize, ZeroHeader).capacity = call.size_bytes
           /\ top_size(This, ZeroHeader) = call.size_bytes

\* The call was made on a block the caller holds below the one it allocated last.
OnLowerBlock ==
    /\ Len(call.held) >= 2
    /\ \E i \in 1..(Len(call.held) - 1) : call.held[i].ptr = call.block
    /\ Last(call.held).ptr # call.block

\* The room the allocation of a new block needs is there when the call is made.
RoomFor(size_bytes, alignment) ==
    /\ call.before.offset <= capacity
    /\ padding_with_header(buf + call.before.offset, alignment, HeaderSize, HeaderAlign)
            + size_bytes <= capacity - call.before.offset

\* The first n bytes at address a of memory m equal the first n bytes at address b of memory k.
SameBytes(m, a, k, b, n) ==
    \A j \in 0..(n - 1) : m[IndexOf(a) + j] = k[IndexOf(b) + j]

\* C12: realloc_align with new_size > 0 on a held block that is not the top
\* block, when there is room, returns an address different from the block's,
\* the first min(old size, new_size) bytes at the new address equal the bytes
\* of the old block, and the new block is the top of the stack.
C12_ReallocByCopy ==
    (/\ call.op = "realloc_align"
     /\ call.size_bytes > 0
     /\ trusted
     /\ OnLowerBlock
     /\ RoomFor(call.size_bytes, call.alignment))
        => /\ call.ret # NULL
           /\ call.ret # call.block
           /\ SameBytes(mem, call.ret, call.before.mem, call.block,
                        psh_min_value(HeldSize(call.held, call.block), call.size_bytes))
           /\ top(This) = call.ret

\* C13: for the pointer p returned by alloc_align(size, alignment), header_of(p)
\* is the header at p - sizeof(StackHeader), whose capacity is the requested
\* size and whose previous_offset is the stack's previous_offset before the
\* allocation, and size_of(p) is the requested size.
C13_HeaderReachable ==
    (call.op = "alloc_align" /\ call.ret # NULL /\ ~call.oob)
        => /\ header_of(This, call.ret) = call.ret - HeaderSize
           /\ LoadHeader(mem, call.ret - HeaderSize, ZeroHeader).capacity = call.size_bytes
           /\ LoadHeader(mem, call.ret - HeaderSize, ZeroHeader).previous_offset
                = call.before.previous_offset
           /\ \A g \in GarbageHeaders(header_of(This, call.ret)) :
                size_of(This, call.ret, g) = call.size_bytes

\* C14: every block returned by a successful Stack::alloc_align or arena
\* alloc has all of its bytes (those inside the buffer) equal to zero when the
\* call returns, also when the block lies on memory the caller wrote and then
\* freed with pop, clear_at, clear or the restore of a checkpoint.
C14_AllocZeroed ==
    (call.op \in {"alloc_align", "arena_alloc_align"} /\ call.ret # NULL)
        => \A j \in DOMAIN mem :
              (j >= IndexOf(call.ret) /\ j - IndexOf(call.ret) < call.size_bytes) => mem[j] = 0

\* An arena allocation over bytes the caller had written to a block that the
\* restore of a checkpoint freed.
C14_Witness ==
    /\ call.op = "arena_alloc_align"
    /\ call.ret # NULL
    /\ InBuffer(call.ret, call.size_bytes)
    /\ call.held = <<>>
    /\ \E i \in 1..Len(checkpoints) : checkpoints[i].restored
    /\ call.before.mem[IndexOf(call.ret)] = CallerByte(0)
    /\ mem[IndexOf(call.ret)] = 0

\* C15: realloc_align with new_size > 0 returns null and leaves offset and
\* previous_offset as they were when block lies outside [buf, buf + capacity)
\* or at or above buf + offset, the empty stack with block = buf included.
C15_ReallocRejectsInvalid ==
    (/\ call.op = "realloc_align"
     /\ call.size_bytes > 0
     /\ \/ call.block < buf
        \/ call.block >= buf + capacity
        \/ call.block >= buf + call.before.offset)
        => (call.ret = NULL /\ OffsetsUnchanged)

\* C16: realloc_align of a held block that is not the top block, with a
\* new_size for which padding_with_header(...) + new_size > capacity - offset,
\* returns null without storing through a null destination or copying, and
\* leaves offset, previous_offset and every byte of the buffer as they were,
\* also when new_size <= capacity - offset < padding + new_size.
C16_CopyPathExhaustion ==
    (/\ call.op = "realloc_align"
     /\ call.size_bytes > 0
     /\ trusted
     /\ OnLowerBlock
     /\ call.before.offset <= capacity
     /\ padding_with_header(buf + call.before.offset, call.alignment, HeaderSize, HeaderAlign)
            + call.size_bytes > capacity - call.before.offset)
        => (call.ret = NULL /\ ~call.oob /\ This = call.before)

\* C17: realloc_align(block, 0, alignment) returns null and leaves the stack
\* in the state clear_at(block) produces: for a held block, the block and
\* every block above it are freed (the offsets are those before the block was
\* allocated); where clear_at fails (block null, below buf or above the top
\* block), nothing changes.
C17_ReallocZeroFrees ==
    (call.op = "realloc_align" /\ call.size_bytes = 0)
        => /\ call.ret = NULL
           /\ \E g \in GarbageHeaders(USub(call.block, HeaderSize)) :
                This = clear_at(call.before, call.block, g).st
           /\ trusted =>
                \A i \in 1..Len(call.held) :
                    call.held[i].ptr = call.block
                        => /\ offset = call.held[i].offset
                           /\ previous_offset = call.held[i].previous_offset
                           /\ blocks = SubSeq(call.held, 1, i - 1)
           /\ (\/ call.block = NULL
               \/ call.block < buf
               \/ call.block > buf + call.before.previous_offset)
                => This = call.before

\* realloc_align to size zero of a held block that has another block above it.
C17_Witness ==
    /\ call.op = "realloc_align"
    /\ call.size_bytes = 0
    /\ trusted
    /\ Len(call.held) >= 2
    /\ \E i \in 1..(Len(call.held) - 1) : call.held[i].ptr = call.block
    /\ offset < call.before.offset

\* C18: on an empty stack (previous_offset = 0) top() and top_header() are
\* null and top_size() and top_previous_offset() are 0, with no read outside
\* the buffer; on a stack that holds blocks, top() and top_header() are the
\* block allocated last and its header.
C18_TopOfEmptyStack ==
    /\ (alive /\ allocator = "stack" /\ previous_offset = 0)
        => /\ top(This) = NULL
           /\ top_header(This) = NULL
           /\ \A g \in GarbageHeaders(top_header(This)) :
                top_size(This, g) = 0 /\ top_previous_offset(This, g) = 0
    /\ (alive /\ allocator = "stack" /\ trusted /\ blocks # <<>>)
        => /\ top(This) = Last(blocks).ptr
           /\ top_header(This) = Last(blocks).ptr - HeaderSize

\* C19: for every address addr and every power-of-two alignment, r =
\* align_forward(addr, alignment) satisfies r % alignment = 0, r >= addr and
\* r < addr + alignment.
C19_AlignForward ==
    call.op = "align_forward"
        => /\ call.ret % call.alignment = 0
           /\ call.ret >= call.ptr_addr
           /\ call.ret < call.ptr_addr + call.alignment

\* C19 as amended: the same for every address addr at or below the last
\* multiple of alignment that a usize holds, addr <= 2^w - alignment; and r =
\* addr when addr is a multiple of alignment.
C19_AlignForwardBelowWrap ==
    (call.op = "align_forward" /\ call.ptr_addr <= UsizeMod - call.alignment)
        => /\ call.ret % call.alignment = 0
           /\ call.ret >= call.ptr_addr
           /\ call.ret < call.ptr_addr + call.alignment
           /\ (call.ptr_addr % call.alignment = 0 => call.ret = call.ptr_addr)

\* An address that is not aligned moved up to the last multiple of the
\* alignment in the address space.
C19_Witness ==
    /\ call.op = "align_forward"
    /\ call.alignment = 2 ^ MaxAlignLog
    /\ call.ptr_addr % call.alignment # 0
    /\ call.ret = UsizeMod - call.alignment

\* C20: arena alloc with size > 0 succeeds if and only if
\* align_forward(buf + offset, alignment) + size <= buf + capacity; on success
\* it returns that aligned address and sets offset to (aligned address - buf)
\* + size; on failure it returns null and leaves offset as it was.
C20_ArenaAlloc ==
    (call.op = "arena_alloc_align" /\ call.size_bytes > 0)
        => LET aligned == align_forward(buf + call.before.offset, call.alignment)
           IN  IF aligned + call.size_bytes <= buf + capacity
               THEN call.ret = aligned /\ offset = (aligned - buf) + call.size_bytes
               ELSE call.ret = NULL /\ offset = call.before.offset

\* C21: arena realloc of the most recent allocation (block + current_size =
\* buf + offset) returns the same pointer and sets offset to offset -
\* current_size + new_size, for growth and for shrink; if block + new_size
\* exceeds buf + capacity it returns null and leaves offset as it was.
C21_ArenaReallocInPlace ==
    (/\ call.op = "arena_realloc_align"
     /\ call.block + call.current_size_bytes = buf + call.before.offset)
        => IF call.block + call.size_bytes <= buf + capacity
           THEN /\ call.ret = call.block
                /\ offset = call.before.offset - call.current_size_bytes + call.size_bytes
           ELSE call.ret = NULL /\ offset = call.before.offset

\* C22: arena realloc of a block that lies below the most recent allocation
\* (block + current_size < buf + offset) returns a fresh block at the aligned
\* free address whose first min(current_size, new_size) bytes are the old
\* block's; when the fresh block does not fit it returns null, leaves offset
\* and the buffer as they were and accesses nothing outside the buffer.
C22_ArenaReallocByCopy ==
    (/\ call.op = "arena_realloc_align"
     /\ call.block >= buf
     /\ call.before.offset <= capacity
     /\ call.block + call.current_size_bytes < buf + call.before.offset)
        => LET new_block == align_forward(buf + call.before.offset, call.alignment)
               move_size == psh_min_value(call.current_size_bytes, call.size_bytes)
           IN  IF new_block + call.size_bytes <= buf + capacity
               THEN /\ call.ret = new_block
                    /\ offset = new_block + call.size_bytes - buf
                    /\ SameBytes(mem, call.ret, call.before.mem, call.block, move_size)
                    /\ ~call.oob
               ELSE /\ call.ret = NULL
                    /\ offset = call.before.offset
                    /\ mem = call.before.mem
                    /\ ~call.oob

\* C23: after the restore of a checkpoint, whatever allocations,
\* reallocations and restores of later checkpoints happened since it was
\* made, the arena's offset is the checkpoint's saved offset, and an
\* allocation of any size and alignment returns the address it would have
\* returned from the state the checkpoint was made in.
C23_CheckpointRoundTrip ==
    (call.op = "checkpoint_restore")
        => LET checkpoint == checkpoints[call.block]
               saved      == [call.before EXCEPT !.offset = checkpoint.saved_offset]
           IN  /\ offset = checkpoint.saved_offset
               /\ \A a \in ArenaAligns : \A n \in ArenaAllocSizes(a) :
                      arena_alloc_align(This, n, a).ret = arena_alloc_align(saved, n, a).ret

\* The restore of the first of two checkpoints, after the second one was
\* restored, frees blocks allocated since the first was made.
C23_Witness ==
    /\ call.op = "checkpoint_restore"
    /\ call.block = 1
    /\ Len(checkpoints) = 2
    /\ checkpoints[2].restored
    /\ ~call.oob
    /\ call.held # <<>>
    /\ offset < call.before.offset
    /\ offset = checkpoints[1].saved_offset

\* C24: after a restore the caller's checkpoint no longer refers to the arena,
\* and the restore of a checkpoint that was restored before leaves the
\* arena's offset as it was.
C24_CheckpointSingleUse ==
    (call.op = "checkpoint_restore")
        => /\ ~checkpoints[call.block].arena
           /\ call.restored => offset = call.before.offset

\* C25: MemoryManager::alloc adds exactly 1 to allocation_count when it
\* returns non-null and MemoryManager::pop subtracts exactly 1 when it returns
\* OK; a failed alloc or pop leaves allocation_count, the offsets and the
\* buffer as they were.
C25_CountOnSuccessOnly ==
    /\ (call.op = "manager_alloc")
           => IF call.ret # NULL
              THEN allocation_count = call.allocation_count + 1
              ELSE allocation_count = call.allocation_count /\ This = call.before
    /\ (call.op = "manager_pop")
           => IF call.ret = STATUS_OK
              THEN allocation_count = call.allocation_count - 1
              ELSE allocation_count = call.allocation_count /\ This = call.before

\* A successful pop of the second of two blocks allocated through the manager.
C25_Witness ==
    /\ call.op = "manager_pop"
    /\ call.ret = STATUS_OK
    /\ call.allocation_count = 2
    /\ allocation_count = 1
    /\ Len(call.held) = 2

\* C26: MemoryManager::realloc adds 1 to allocation_count exactly when the
\* pointer it returns differs from block, and the pointer differs from block
\* only when a new block was created: a realloc that fails or that frees
\* (zero elements) does not increase the count.
C26_ReallocCountsNewBlocks ==
    (call.op = "manager_realloc")
        => /\ allocation_count = call.allocation_count + (IF call.ret # call.block THEN 1 ELSE 0)
           /\ (call.ret # call.block)
                  => /\ call.ret # NULL
                     /\ call.size_bytes > 0
                     /\ call.ret = UAdd(buf, previous_offset)
                     /\ previous_offset # call.before.previous_offset

\* The position among the held blocks of the block at ptr.
HeldIndex(held, ptr) == CHOOSE i \in 1..Len(held) : held[i].ptr = ptr

\* C27: clear_until(b) of a block b the caller holds returns OK, frees b and
\* every block allocated after it and nothing else, decrements
\* allocation_count by the number of blocks freed, and leaves offset and
\* previous_offset as Stack::clear_at(b) would.
C27_ClearUntilLiveBlock ==
    (/\ call.op = "manager_clear_until"
     /\ call.trusted
     /\ \E i \in 1..Len(call.held) : call.held[i].ptr = call.block)
        => LET i  == HeldIndex(call.held, call.block)
               at == clear_at(call.before, call.block, ZeroHeader)
           IN  /\ call.ret = STATUS_OK
               /\ ~call.oob
               /\ offset = call.held[i].offset
               /\ previous_offset = call.held[i].previous_offset
               /\ allocation_count = call.allocation_count - (Len(call.held) - i + 1)
               /\ offset = at.st.offset
               /\ previous_offset = at.st.previous_offset

\* clear_until of the first of three held blocks.
C27_Witness ==
    /\ call.op = "manager_clear_until"
    /\ call.trusted
    /\ call.ret = STATUS_OK
    /\ ~call.oob
    /\ Len(call.held) = 3
    /\ call.block = call.held[1].ptr
    /\ blocks = <<>>
    /\ allocation_count = call.allocation_count - 3

C29_ClearUntilRejectsInvalid ==
    (/\ call.op = "manager_clear_until"
     /\ \/ call.block = NULL
        \/ call.block < buf
        \/ call.block > buf + capacity
        \/ call.block > buf + call.before.previous_offset)
        => /\ call.ret = STATUS_FAILED
           /\ allocation_count = call.allocation_count
           /\ OffsetsUnchanged

\* C30: make_arena(size), when the stack allocation succeeds, returns an arena
\* whose buf is a new top block of exactly size bytes of the buffer, with
\* capacity = size and offset = 0, and adds 1 to allocation_count; when the
\* allocation fails it returns the empty option and leaves allocation_count
\* and the offsets as they were.
C30_MakeArena ==
    (call.op = "make_arena")
        => IF call.ret # NULL
           THEN /\ Len(call.arena) = 1
                /\ call.arena[1].buf = buf + previous_offset
                /\ call.arena[1].capacity = call.size_bytes
                /\ call.arena[1].offset = 0
                /\ previous_offset >= call.before.offset + HeaderSize
                /\ offset = previous_offset + call.size_bytes
                /\ offset <= capacity
                /\ allocation_count = call.allocation_count + 1
           ELSE /\ call.arena = <<>>
                /\ allocation_count = call.allocation_count
                /\ OffsetsUnchanged

\* The loop of clear_until from state s ends within `rounds` iterations, each
\* of which either breaks or leaves previous_offset strictly lower; the loop
\* is followed up to its first load outside the buffer.
RECURSIVE clear_until_ends(_, _, _)
clear_until_ends(s, block, rounds) ==
    LET top_block == top(s)
    IN  IF top_block = buf THEN TRUE
        ELSE LET st == pop(s, ZeroHeader)
             IN  IF st.oob \/ top_block = block THEN TRUE
                 ELSE /\ rounds > 0
                      /\ st.st.previous_offset < s.previous_offset
                      /\ clear_until_ends(st.st, block, rounds - 1)

\* C31: the pop loop of MemoryManager::clear_until terminates from every
\* state the manager reaches, for every pointer that passes the range check:
\* each iteration either breaks or strictly decreases previous_offset.
C31_ClearUntilTerminates ==
    (/\ call.op = "manager_clear_until"
     /\ call.block >= buf
     /\ call.block <= UAdd(buf, call.before.previous_offset))
        => clear_until_ends(call.before, call.block, capacity)

\* The call grew in place, from old_size bytes, the block the caller allocated last.
GrewInPlace(old_size) ==
    /\ OnLastBlock
    /\ call.ret = call.block
    /\ old_size = Last(call.held).size_bytes
    /\ call.size_bytes > old_size

\* C32: when realloc_align of the stack or the arena's realloc grows the most
\* recent block in place from old_size to new_size, the bytes [old_size,
\* new_size) of the block are zero when the call returns, whatever they held
\* before.
C32_GrowthZeroed ==
    /\ (call.op = "realloc_align" /\ GrewInPlace(Last(call.held).size_bytes))
           => \A j \in DOMAIN mem :
                 (/\ j - IndexOf(call.block) >= Last(call.held).size_bytes
                  /\ j - IndexOf(call.block) < call.size_bytes) => mem[j] = 0
    /\ (call.op = "arena_realloc_align" /\ GrewInPlace(call.current_size_bytes))
           => \A j \in DOMAIN mem :
                 (/\ j - IndexOf(call.block) >= call.current_size_bytes
                  /\ j - IndexOf(call.block) < call.size_bytes) => mem[j] = 0

\* C33: after realloc_align has moved a held block B that is not the top
\* block to a new block, every byte of the stack below the old offset, B's
\* header and data included, is as it was, the new block's header links to
\* the old top block, so that B stays in the chain, and a pop that follows
\* frees the new block only: it restores offset and previous_offset to their
\* values before the realloc.
C33_CopyLeavesOldBlock ==
    (/\ call.op = "realloc_align"
     /\ call.size_bytes > 0
     /\ trusted
     /\ OnLowerBlock
     /\ call.ret # NULL
     /\ ~call.oob)
        => /\ \A j \in DOMAIN mem : j < call.before.offset => mem[j] = call.before.mem[j]
           /\ LoadHeader(mem, USub(call.ret, HeaderSize), ZeroHeader).previous_offset
                 = call.before.previous_offset
           /\ \E r \in {pop(This, ZeroHeader)} :
                 /\ r.ret = STATUS_OK
                 /\ ~r.oob
                 /\ r.st.offset = call.before.offset
                 /\ r.st.previous_offset = call.before.previous_offset

\* A realloc of the first of two held blocks that moved it, after the caller
\* had written to it.
C33_Witness ==
    /\ call.op = "realloc_align"
    /\ call.size_bytes > 0
    /\ trusted
    /\ OnLowerBlock
    /\ call.ret # NULL
    /\ ~call.oob
    /\ call.ret > Last(call.held).ptr
    /\ call.before.mem[IndexOf(call.block)] # 0
    /\ mem[IndexOf(call.ret)] = call.before.mem[IndexOf(call.block)]


\* C34: the older arena's yo_arena_alloc_aligned bumps from the current offset:
\* when the buffer is aligned and the aligned offset plus the size fits the
\* capacity, it returns the non-null address buf + align_forward(offset) and
\* leaves offset at the aligned offset plus the size.
C34_YoArenaBumps ==
    (/\ call.op = "yo_arena_alloc_aligned"
     /\ call.size_bytes > 0
     /\ buf % call.alignment = 0
     /\ align_forward(call.before.offset, call.alignment) + call.size_bytes <= capacity)
        => /\ call.ret # NULL
           /\ call.ret = buf + align_forward(call.before.offset, call.alignment)
           /\ offset = align_forward(call.before.offset, call.alignment) + call.size_bytes

\* The offsets [start, end) a held block occupies, from the start of the padding
\* before its header to the end of its data.
LiveRegion(b) ==
    [start |-> USub(b.ptr, buf) - LoadHeader(mem, USub(b.ptr, HeaderSize), ZeroHeader).padding,
     end   |-> USub(b.ptr, buf) + b.size_bytes]

\* C35: in every state reached by callers that free and resize only blocks they
\* hold, the regions from header start to data end of the live blocks are
\* pairwise disjoint and lie below offset; the block allocated last is one of
\* them, so it overlaps no block that is still live.
C35_LiveBlocksDisjoint ==
    trusted =>
        /\ \A i \in 1..Len(blocks) :
                /\ 0 <= LiveRegion(blocks[i]).start
                /\ LiveRegion(blocks[i]).start <= LiveRegion(blocks[i]).end
                /\ LiveRegion(blocks[i]).end <= offset
        /\ \A i \in 1..Len(blocks) : \A j \in 1..Len(blocks) :
                i < j => LiveRegion(blocks[i]).end <= LiveRegion(blocks[j]).start

\* The header of the block that starts at offset po, as pop reads it.
HeaderAtOffset(po, g) == LoadHeader(mem, USub(UAdd(buf, po), HeaderSize), g)

\* The chain of headers from the block at offset po down: every padding spans
\* its header without exceeding the block's offset, and every link leads to a
\* strictly smaller offset until it reaches 0.
RECURSIVE WellFormedChain(_, _)
WellFormedChain(po, rounds) ==
    \/ po = 0
    \/ /\ rounds > 0
       /\ \A g \in GarbageHeaders(USub(UAdd(buf, po), HeaderSize)) :
          \A header \in {HeaderAtOffset(po, g)} :
            /\ HeaderSize <= header.padding
            /\ header.padding <= po
            /\ header.previous_offset < po
            /\ WellFormedChain(header.previous_offset, rounds - 1)

\* C36: between the calls of every run that reaches, without an access outside
\* the buffer, a state through alloc_align, realloc_align, pop, clear and
\* clear_at on pointers of blocks the caller holds, the top block's header
\* satisfies sizeof(StackHeader) <= padding <= previous_offset and
\* header.previous_offset < previous_offset, and so does every header down the
\* chain, which reaches 0; previous_offset is 0 exactly when no block is live.
C36_ChainWellFormed ==
    (call.op = "none" /\ trusted /\ alive) =>
        /\ WellFormedChain(previous_offset, capacity)
        /\ (previous_offset = 0) <=> (blocks = <<>>)

\* A state with two live blocks, the top one linked to the one below it.
C36_Witness ==
    /\ call.op = "none"
    /\ trusted /\ alive
    /\ Len(blocks) = 2
    /\ previous_offset = USub(blocks[2].ptr, buf)
    /\ HeaderAtOffset(previous_offset, ZeroHeader).previous_offset = USub(blocks[1].ptr, buf)
    /\ HeaderAtOffset(previous_offset, ZeroHeader).padding > HeaderSize

\* C37: with w-bit unsigned arithmetic, the stack's alloc_align and the arena's
\* allocation refuse every size larger than the remaining capacity, also one so
\* large that padding + size or the aligned address + size wraps modulo 2^w:
\* they return null and leave the offsets unchanged.
C37_NoWrappedSuccess ==
    (/\ call.op \in {"alloc_align", "arena_alloc_align"}
     /\ call.before.offset <= capacity
     /\ call.size_bytes > capacity - call.before.offset)
        => /\ call.ret = NULL
           /\ offset = call.before.offset
           /\ previous_offset = call.before.previous_offset

C39_ArenaWithinBuffer ==
    /\ 0 <= offset
    /\ offset <= capacity
    /\ (call.op \in {"arena_alloc_align", "arena_realloc_align"} /\ call.ret # NULL)
            => /\ buf <= call.ret
               /\ call.ret + call.size_bytes <= buf + capacity

\* The number of blocks in the chain of headers from the block at offset po down.
RECURSIVE ChainLength(_, _)
ChainLength(po, rounds) ==
    IF po = 0 \/ rounds = 0 THEN 0
    ELSE 1 + ChainLength(HeaderAtOffset(po, ZeroHeader).previous_offset, rounds - 1)

\* C40: after any sequence of alloc, realloc, pop, clear_until, clear and
\* make_arena issued through the manager on blocks the caller holds,
\* allocation_count equals the number of live blocks in the header chain of
\* the underlying stack, and so is 0 exactly when the stack is empty.
C40_CountIsLiveBlocks ==
    (trusted /\ alive) =>
        /\ allocation_count = ChainLength(previous_offset, capacity)
        /\ (allocation_count = 0) <=> (previous_offset = 0)

====
